---- MODULE Spec2Model ----
(***************************************************************************)
(* Constructor resolution in rule patterns (Book::resolve_ctrs_in_pats,    *)
(* Pattern::resolve_ctrs) and the operator conversions between Opr and     *)
(* hvm_core::OP.                                                           *)
(*                                                                         *)
(* Spec     the sequential pass, one step per loop head and per node       *)
(*          visit, run twice over every bounded program.                   *)
(* ParSpec  the same node visit under an arbitrary schedule.               *)
(* OprSpec  the three From conversions of the operator boundary.           *)
(***************************************************************************)
EXTENDS Integers, Sequences, FiniteSets, TLC

VARIABLES
  ctrs,      \* self.ctrs: the names declared as constructors (the keys of the map)
  defs,      \* self.defs: def key -> Definition
  defs0,     \* history: the program as construction left it
  after1,    \* history: the program after the first run, NotRun before that
  run,       \* "first" or "second": which run of the pass is in progress
  pending,   \* def keys the iterator of self.defs.values_mut() has not yielded yet
  pc,        \* position in resolve_ctrs_in_pats: "defs", "rules", "pats", "resolve", "done"
  cur,       \* key of the definition the outer loop is at
  ri,        \* index of the rule the middle loop is at
  pi,        \* index of the top-level pattern the inner loop is at
  stack,     \* call stack of Pattern::resolve_ctrs: frames [path, next]
  log,       \* history: addresses of the nodes visited in this run, in order
  rewrites,  \* history: number of Var -> Ctr rewrites in this run
  steps,     \* history: number of steps of this run
  todo,      \* ParSpec: addresses of the nodes still to be visited
  calls      \* OprSpec: conversion -> its last call [arg, res], or NoCall

vars == <<ctrs, defs, defs0, after1, run, pending, pc, cur, ri, pi, stack, log,
          rewrites, steps, todo, calls>>

(***************************************************************************)
(* Bounds                                                                  *)
(***************************************************************************)
\* Size of a program: its rules plus the nodes of all their patterns.
MaxSize == 4

(***************************************************************************)
(* Patterns                                                                *)
(***************************************************************************)
\* Names a bare identifier of a pattern may be, and names of explicit constructor patterns.
Names == {"Nil", "x"}
CtrNames == {"Pair"}

DefIds == {1, 2}

\* Option<Name>: <<>> is None, <<n>> is Some(n).
None == <<>>
Some(n) == <<n>>

Var(nam) == [tag |-> "Var", nam |-> nam]
Ctr(nam, args) == [tag |-> "Ctr", nam |-> nam, args |-> args]
Num(val) == [tag |-> "Num", val |-> val]
Tup(fst, snd) == [tag |-> "Tup", fst |-> fst, snd |-> snd]

Rule(def_id, pats) == [def_id |-> def_id, pats |-> pats, body |-> [tag |-> "Ref", def_id |-> def_id]]
Definition(def_id, rules) == [def_id |-> def_id, rules |-> rules]

\* The oracle of resolve_ctrs_in_pats: |nam| self.ctrs.contains_key(nam)
is_ctr(nam) == nam \in ctrs

(***************************************************************************)
(* Pattern trees: nodes, paths and the write through a mutable reference   *)
(***************************************************************************)
\* The sub-patterns a node carries, in order.
Children(p) ==
  IF p.tag = "Ctr" THEN p.args
  ELSE IF p.tag = "Tup" THEN <<p.fst, p.snd>>
  ELSE <<>>

RECURSIVE NodeAt(_, _)
NodeAt(p, path) ==
  IF path = <<>> THEN p ELSE NodeAt(Children(p)[Head(path)], Tail(path))

RECURSIVE Paths(_)
Paths(p) ==
  {<<>>} \cup UNION {{<<i>> \o q : q \in Paths(Children(p)[i])} : i \in 1..Len(Children(p))}

RECURSIVE ReplaceAt(_, _, _)
\* The write rebuilds the enclosing Ctr around the one argument it went through.
ReplaceAt_dropsSiblings(p, path, new) ==
  IF path = <<>> THEN new
  ELSE [p EXCEPT !.args = <<ReplaceAt(p.args[Head(path)], Tail(path), new)>>]

\* `*self = new` where self was reached through the args of enclosing Ctr nodes.
ReplaceAt(p, path, new) ==
  IF path = <<>> THEN new
  ELSE [p EXCEPT !.args[Head(path)] = ReplaceAt(@, Tail(path), new)]

\* An address <<d, r, i, path>>: definition d, rule r, top-level pattern i, path below it.
Addrs(ds) ==
  UNION {UNION {UNION {{<<d, r, i, q>> : q \in Paths(ds[d].rules[r].pats[i])}
                       : i \in 1..Len(ds[d].rules[r].pats)}
                : r \in 1..Len(ds[d].rules)}
         : d \in DOMAIN ds}

Node(ds, a) == NodeAt(ds[a[1]].rules[a[2]].pats[a[3]], a[4])

RECURSIVE SubstAll(_, _, _)
SubstAll(p, old, new) ==
  IF p = old THEN new
  ELSE IF p.tag = "Ctr"
    THEN [p EXCEPT !.args = [k \in 1..Len(p.args) |-> SubstAll(p.args[k], old, new)]]
    ELSE p

\* The write replaces every pattern node of the program that equals the node written.
WriteNode_everyRule(ds, a, new) ==
  [d \in DOMAIN ds |->
     [ds[d] EXCEPT !.rules =
        [r \in 1..Len(ds[d].rules) |->
           [ds[d].rules[r] EXCEPT !.pats =
              [k \in 1..Len(ds[d].rules[r].pats) |->
                 SubstAll(ds[d].rules[r].pats[k], Node(ds, a), new)]]]]]

WriteNode(ds, a, new) ==
  [ds EXCEPT ![a[1]].rules[a[2]].pats[a[3]] = ReplaceAt(@, a[4], new)]

(***************************************************************************)
(* The bounded programs                                                    *)
(***************************************************************************)
Leaves == {Var(None), Num(0)} \cup {Var(Some(n)) : n \in Names}

RECURSIVE PatsOfSize(_), SeqsOfSize(_)
\* The patterns of exactly n nodes.
PatsOfSize(n) ==
  IF n = 1 THEN Leaves \cup {Ctr(c, <<>>) : c \in CtrNames}
  ELSE {Ctr(c, a) : c \in CtrNames, a \in SeqsOfSize(n - 1)}
       \cup UNION {{Tup(a, b) : a \in PatsOfSize(k), b \in PatsOfSize(n - 1 - k)}
                   : k \in 1..(n - 2)}

\* The pattern lists of exactly n nodes in all.
SeqsOfSize(n) ==
  IF n = 0 THEN {<<>>}
  ELSE UNION {{<<p>> \o s : p \in PatsOfSize(k), s \in SeqsOfSize(n - k)} : k \in 1..n}

RECURSIVE RuleSeqs(_, _)
\* The rule lists of definition d of size n: each rule counts one plus its nodes.
RuleSeqs(d, n) ==
  IF n = 0 THEN {<<>>}
  ELSE UNION {{<<Rule(d, ps)>> \o rs : ps \in SeqsOfSize(k - 1), rs \in RuleSeqs(d, n - k)}
              : k \in 1..n}

Books ==
  UNION {{[d \in DefIds |-> Definition(d, IF d = 1 THEN a ELSE b)]
            : a \in RuleSeqs(1, s[1]), b \in RuleSeqs(2, s[2])}
         : s \in {t \in (0..MaxSize) \X (0..MaxSize) : t[1] + t[2] <= MaxSize}}

(***************************************************************************)
(* Pattern::resolve_ctrs, the arm of one node                              *)
(***************************************************************************)
\* The rewrite keeps the variable as an argument of the new Ctr.
resolve_var_keepsVar(self) ==
  IF is_ctr(self.nam[1]) THEN Ctr(self.nam[1], <<self>>) ELSE self

\* The rewrite does not ask the oracle.
resolve_var_always(self) ==
  Ctr(self.nam[1], <<>>)

\* Pattern::Var(Some(nam)) => if is_ctr(nam) { *self = Pattern::Ctr(nam.clone(), vec![]) }
resolve_var(self) ==
  IF is_ctr(self.nam[1]) THEN Ctr(self.nam[1], <<>>) ELSE self

(***************************************************************************)
(* Book::resolve_ctrs_in_pats, sequentially                                *)
(***************************************************************************)
\* Placeholders: no program recorded yet, no call made yet.
NotRun == <<>>
NoCall == [arg |-> "-", res |-> "-"]
Conversions == {"OprToOP", "OPToOpr", "RefOPToOpr"}

Programs == Books

\* The constructor sets: none of the names, one of them, both. Names enter a program
\* alike, so declaring only "x" mirrors declaring only "Nil".
CtrSets == {{}, {"Nil"}, {"Nil", "x"}}

Init ==
  /\ ctrs \in CtrSets
  /\ defs \in Programs
  /\ defs0 = defs
  /\ after1 = NotRun
  /\ run = "first"
  /\ pending = DOMAIN defs
  /\ pc = "defs"
  /\ cur = 0
  /\ ri = 0
  /\ pi = 0
  /\ stack = <<>>
  /\ log = <<>>
  /\ rewrites = 0
  /\ steps = 0
  /\ todo = {}
  /\ calls = [c \in Conversions |-> NoCall]

idle == <<todo, calls>>

\* Every step of a run is counted.
Tick == steps' = steps + 1

\* The frame on top of the call stack, the address of its self and the node there.
Top == stack[Len(stack)]
SelfAddr == <<cur, ri, pi, Top.path>>
Self == Node(defs, SelfAddr)

\* resolve_ctrs returns: to the caller's loop over args, or to the loop over rule.pats.
Return ==
  /\ stack' = SubSeq(stack, 1, Len(stack) - 1)
  /\ IF Len(stack) = 1
       THEN pc' = "pats" /\ pi' = pi + 1
       ELSE UNCHANGED <<pc, pi>>

\* for def in self.defs.values_mut(): the iterator yields another definition.
DefsNext(d) ==
  /\ pc = "defs"
  /\ d \in pending
  /\ pending' = pending \ {d}
  /\ cur' = d
  /\ ri' = 1
  /\ pc' = "rules"
  /\ Tick
  /\ UNCHANGED <<ctrs, defs, defs0, after1, run, pi, stack, log, rewrites, idle>>

\* for def in self.defs.values_mut(): the iterator is exhausted, the pass returns.
DefsEnd ==
  /\ pc = "defs"
  /\ pending = {}
  /\ pc' = "done"
  /\ cur' = 0
  /\ after1' = IF run = "first" THEN defs ELSE after1
  /\ Tick
  /\ UNCHANGED <<ctrs, defs, defs0, run, pending, ri, pi, stack, log, rewrites, idle>>

\* for rule in &mut def.rules: another rule.
RulesNext ==
  /\ pc = "rules"
  /\ ri <= Len(defs[cur].rules)
  /\ pi' = 1
  /\ pc' = "pats"
  /\ Tick
  /\ UNCHANGED <<ctrs, defs, defs0, after1, run, pending, cur, ri, stack, log, rewrites, idle>>

\* for rule in &mut def.rules: no rule is left.
RulesEnd ==
  /\ pc = "rules"
  /\ ri > Len(defs[cur].rules)
  /\ ri' = 0
  /\ pc' = "defs"
  /\ Tick
  /\ UNCHANGED <<ctrs, defs, defs0, after1, run, pending, cur, pi, stack, log, rewrites, idle>>

\* for pat in &mut rule.pats: pat.resolve_ctrs(..) is called on another pattern.
PatsNext ==
  /\ pc = "pats"
  /\ pi <= Len(defs[cur].rules[ri].pats)
  /\ stack' = <<[path |-> <<>>, next |-> 0]>>
  /\ log' = Append(log, <<cur, ri, pi, <<>>>>)
  /\ pc' = "resolve"
  /\ Tick
  /\ UNCHANGED <<ctrs, defs, defs0, after1, run, pending, cur, ri, pi, rewrites, idle>>

\* for pat in &mut rule.pats: no pattern is left.
PatsEnd ==
  /\ pc = "pats"
  /\ pi > Len(defs[cur].rules[ri].pats)
  /\ pi' = 0
  /\ ri' = ri + 1
  /\ pc' = "rules"
  /\ Tick
  /\ UNCHANGED <<ctrs, defs, defs0, after1, run, pending, cur, stack, log, rewrites, idle>>

\* After the rewrite the match is taken again on the new Ctr node.
ResolveVarSome_revisits ==
  /\ pc = "resolve"
  /\ Top.next = 0
  /\ Self.tag = "Var"
  /\ Self.nam # None
  /\ defs' = WriteNode(defs, SelfAddr, resolve_var(Self))
  /\ rewrites' = IF defs' # defs THEN rewrites + 1 ELSE rewrites
  /\ IF defs' # defs
       THEN log' = Append(log, SelfAddr) /\ UNCHANGED <<stack, pc, pi>>
       ELSE Return /\ UNCHANGED log
  /\ Tick
  /\ UNCHANGED <<ctrs, defs0, after1, run, pending, cur, ri, idle>>

\* Pattern::Var(Some(nam)) => { if is_ctr(nam) { *self = Pattern::Ctr(nam.clone(), vec![]) } }
ResolveVarSome ==
  /\ pc = "resolve"
  /\ Top.next = 0
  /\ Self.tag = "Var"
  /\ Self.nam # None
  /\ defs' = WriteNode(defs, SelfAddr, resolve_var(Self))
  /\ rewrites' = IF defs' # defs THEN rewrites + 1 ELSE rewrites
  /\ Return
  /\ Tick
  /\ UNCHANGED <<ctrs, defs0, after1, run, pending, cur, ri, log, idle>>

\* Pattern::Ctr(_, args) => the loop over args begins.
ResolveCtr ==
  /\ pc = "resolve"
  /\ Top.next = 0
  /\ Self.tag = "Ctr"
  /\ stack' = [stack EXCEPT ![Len(stack)].next = 1]
  /\ Tick
  /\ UNCHANGED <<ctrs, defs, defs0, after1, run, pending, pc, cur, ri, pi, log, rewrites, idle>>

\* for arg in args { arg.resolve_ctrs(is_ctr) }: the call on another argument.
CtrArgNext ==
  /\ pc = "resolve"
  /\ Top.next >= 1
  /\ Top.next <= Len(Self.args)
  /\ stack' = Append([stack EXCEPT ![Len(stack)].next = @ + 1],
                     [path |-> Append(Top.path, Top.next), next |-> 0])
  /\ log' = Append(log, <<cur, ri, pi, Append(Top.path, Top.next)>>)
  /\ Tick
  /\ UNCHANGED <<ctrs, defs, defs0, after1, run, pending, pc, cur, ri, pi, rewrites, idle>>

\* for arg in args: no argument is left, the call on the Ctr node returns.
CtrArgEnd ==
  /\ pc = "resolve"
  /\ Top.next >= 1
  /\ Top.next > Len(Self.args)
  /\ Return
  /\ Tick
  /\ UNCHANGED <<ctrs, defs, defs0, after1, run, pending, cur, ri, log, rewrites, idle>>

\* Pattern::Var(None) => ()
ResolveVarNone ==
  /\ pc = "resolve"
  /\ Top.next = 0
  /\ Self.tag = "Var"
  /\ Self.nam = None
  /\ Return
  /\ Tick
  /\ UNCHANGED <<ctrs, defs, defs0, after1, run, pending, cur, ri, log, rewrites, idle>>

\* Pattern::Num(_) => ()
ResolveNum ==
  /\ pc = "resolve"
  /\ Top.next = 0
  /\ Self.tag = "Num"
  /\ Return
  /\ Tick
  /\ UNCHANGED <<ctrs, defs, defs0, after1, run, pending, cur, ri, log, rewrites, idle>>

\* The Tup arm resolves the two sub-patterns.
ResolveTup_recurses ==
  /\ pc = "resolve"
  /\ Top.next = 0
  /\ Self.tag = "Tup"
  /\ LET sub(q) == IF q.tag = "Var" /\ q.nam # None THEN resolve_var(q) ELSE q
     IN defs' = WriteNode(defs, SelfAddr, Tup(sub(Self.fst), sub(Self.snd)))
  /\ Return
  /\ Tick
  /\ UNCHANGED <<ctrs, defs0, after1, run, pending, cur, ri, log, rewrites, idle>>

\* Pattern::Tup(_, _) => ()
ResolveTup ==
  /\ pc = "resolve"
  /\ Top.next = 0
  /\ Self.tag = "Tup"
  /\ Return
  /\ Tick
  /\ UNCHANGED <<ctrs, defs, defs0, after1, run, pending, cur, ri, log, rewrites, idle>>

\* The pass is called a second time on the program the first call left.
Restart ==
  /\ pc = "done"
  /\ run = "first"
  /\ run' = "second"
  /\ pending' = DOMAIN defs
  /\ pc' = "defs"
  /\ log' = <<>>
  /\ rewrites' = 0
  /\ steps' = 0
  /\ UNCHANGED <<ctrs, defs, defs0, after1, cur, ri, pi, stack, idle>>

\* One step of the pass.
PassStep ==
  \/ \E d \in DefIds : DefsNext(d)
  \/ DefsEnd
  \/ RulesNext
  \/ RulesEnd
  \/ PatsNext
  \/ PatsEnd
  \/ ResolveVarSome
  \/ ResolveCtr
  \/ CtrArgNext
  \/ CtrArgEnd
  \/ ResolveVarNone
  \/ ResolveNum
  \/ ResolveTup


Next == PassStep \/ Restart

Spec == Init /\ [][Next]_vars

(***************************************************************************)
(* The same node visit under any schedule: every rule's patterns, and      *)
(* every argument of a visited Ctr node, may be resolved in any order.     *)
(***************************************************************************)
TopAddrs(ds) ==
  UNION {UNION {{<<d, r, i, <<>>>> : i \in 1..Len(ds[d].rules[r].pats)}
                : r \in 1..Len(ds[d].rules)}
         : d \in DOMAIN ds}

ParInit ==
  /\ ctrs \in CtrSets
  /\ defs \in Programs
  /\ defs0 = defs
  /\ after1 = NotRun
  /\ run = "first"
  /\ pending = {}
  /\ pc = "par"
  /\ cur = 0
  /\ ri = 0
  /\ pi = 0
  /\ stack = <<>>
  /\ log = <<>>
  /\ rewrites = 0
  /\ steps = 0
  /\ todo = TopAddrs(defs)
  /\ calls = [c \in Conversions |-> NoCall]

\* The arguments of a Ctr overwrite the addresses still to be visited (a lost update).
Pending_overwrites(a, self) ==
  IF self.tag = "Ctr" /\ self.args # <<>>
    THEN {<<a[1], a[2], a[3], Append(a[4], k)>> : k \in 1..Len(self.args)}
    ELSE todo \ {a}

\* What visiting the node at address a leaves to be visited: the match of
\* Pattern::resolve_ctrs calls resolve_ctrs on every argument of a Ctr, on nothing else.
Pending(a, self) ==
  (todo \ {a}) \cup
    (IF self.tag = "Ctr"
       THEN {<<a[1], a[2], a[3], Append(a[4], k)>> : k \in 1..Len(self.args)}
       ELSE {})

\* Pattern::resolve_ctrs on the node at address a.
ParVisit(a) ==
  /\ pc = "par"
  /\ a \in todo
  /\ LET self == Node(defs, a) IN
       /\ defs' = IF self.tag = "Var" /\ self.nam # None
                    THEN WriteNode(defs, a, resolve_var(self))
                    ELSE defs
       /\ todo' = Pending(a, self)
  /\ log' = Append(log, a)
  /\ UNCHANGED <<ctrs, defs0, after1, run, pending, pc, cur, ri, pi, stack, rewrites,
                 steps, calls>>

ParNext == \E a \in todo : ParVisit(a)

ParSpec == ParInit /\ [][ParNext]_vars

(***************************************************************************)
(* The operator boundary: Opr and hvm_core::OP                             *)
(***************************************************************************)
Opr == {"Add", "Sub", "Mul", "Div", "Mod", "And", "Or", "Xor", "Shl", "Shr",
        "Ltn", "Lte", "Gtn", "Gte", "Eql", "Neq"}

OP == {"ADD", "SUB", "MUL", "DIV", "MOD", "EQ", "NEQ", "LT", "GT", "LTE", "GTE",
       "AND", "OR"}

\* The outcome of todo!(): the conversion panics with "not yet implemented".
Todo == "todo!()"

\* Every other operator is converted to ADD.
OP_from_Opr_defaults(value) ==
  "ADD"

\* impl From<Opr> for hvm_core::OP
OP_from_Opr(value) ==
  IF value = "Add" THEN "ADD" ELSE Todo

\* impl From<hvm_core::OP> for Opr
Opr_from_OP(value) ==
  IF value = "ADD" THEN "Add" ELSE Todo

\* impl From<&hvm_core::OP> for Opr
Opr_from_ref_OP(value) ==
  CASE value = "ADD" -> "Add"
    [] value = "SUB" -> "Sub"
    [] value = "MUL" -> "Mul"
    [] value = "DIV" -> "Div"
    [] value = "MOD" -> "Mod"
    [] value = "EQ" -> "Eql"
    [] value = "NEQ" -> "Neq"
    [] value = "LT" -> "Ltn"
    [] value = "GT" -> "Gtn"
    [] value = "LTE" -> "Lte"
    [] value = "GTE" -> "Gte"
    [] value = "AND" -> "And"
    [] value = "OR" -> "Or"

OprInit ==
  /\ ctrs = {}
  /\ defs = [d \in DefIds |-> Definition(d, <<>>)]
  /\ defs0 = defs
  /\ after1 = NotRun
  /\ run = "first"
  /\ pending = {}
  /\ pc = "opr"
  /\ cur = 0
  /\ ri = 0
  /\ pi = 0
  /\ stack = <<>>
  /\ log = <<>>
  /\ rewrites = 0
  /\ steps = 0
  /\ todo = {}
  /\ calls = [c \in Conversions |-> NoCall]

bookVars == <<ctrs, defs, defs0, after1, run, pending, pc, cur, ri, pi, stack, log,
              rewrites, steps, todo>>

\* hvm_core::OP::from(value) for an Opr
CallOprToOP(value) ==
  /\ pc = "opr"
  /\ calls' = [calls EXCEPT !["OprToOP"] = [arg |-> value, res |-> OP_from_Opr(value)]]
  /\ UNCHANGED bookVars

\* Opr::from(value) for an hvm_core::OP
CallOPToOpr(value) ==
  /\ pc = "opr"
  /\ calls' = [calls EXCEPT !["OPToOpr"] = [arg |-> value, res |-> Opr_from_OP(value)]]
  /\ UNCHANGED bookVars

\* Opr::from(&value) for an hvm_core::OP
CallRefOPToOpr(value) ==
  /\ pc = "opr"
  /\ calls' = [calls EXCEPT !["RefOPToOpr"] = [arg |-> value, res |-> Opr_from_ref_OP(value)]]
  /\ UNCHANGED bookVars

OprNext ==
  \/ \E value \in Opr : CallOprToOP(value)
  \/ \E value \in OP : CallOPToOpr(value)
  \/ \E value \in OP : CallRefOPToOpr(value)

OprSpec == OprInit /\ [][OprNext]_vars

(***************************************************************************)
(* Properties                                                              *)
(***************************************************************************)
\* The rewrite the pass is specified by: every Var(Some(name)) the oracle answers true
\* for becomes Ctr(name, []), at the top level and below the arguments of Ctr patterns.
RECURSIVE Reference(_)
Reference(p) ==
  IF p.tag = "Var"
    THEN IF p.nam # None /\ p.nam[1] \in ctrs THEN Ctr(p.nam[1], <<>>) ELSE p
  ELSE IF p.tag = "Ctr"
    THEN Ctr(p.nam, [k \in 1..Len(p.args) |-> Reference(p.args[k])])
  ELSE p

ReferenceBook(ds) ==
  [d \in DOMAIN ds |->
     [def_id |-> ds[d].def_id,
      rules |-> [r \in 1..Len(ds[d].rules) |->
                   [def_id |-> ds[d].rules[r].def_id,
                    pats |-> [k \in 1..Len(ds[d].rules[r].pats) |->
                                Reference(ds[d].rules[r].pats[k])],
                    body |-> ds[d].rules[r].body]]]]

AmbiguousVar(p) == p.tag = "Var" /\ p.nam # None /\ p.nam[1] \in ctrs

RuleIds(ds) == UNION {{<<d, r>> : r \in 1..Len(ds[d].rules)} : d \in DOMAIN ds}

\* C1: when the pass has returned, no pattern node at any depth of any rule, whatever
\* encloses it (Ctr or Tup), is a Var(Some(c)) with c in the constructor set.
C1_Complete ==
  pc = "done" => \A a \in Addrs(defs) : ~AmbiguousVar(Node(defs, a))

\* C2: a second run of the pass leaves the program exactly as the first run left it,
\* and rewrites no node.
C2_Idempotent ==
  (pc = "done" /\ run = "second") => (defs = after1 /\ rewrites = 0)

C2_Witness ==
  /\ pc = "done"
  /\ run = "second"
  /\ after1 # defs0
  /\ Len(log) >= 2

\* C3: no step changes a Var(None) node or a Num node, and a Ctr node stays a Ctr node
\* with the same name and the same number of arguments.
C3_NonInterference ==
  [][defs' # defs =>
       \A a \in Addrs(defs) :
         LET n == Node(defs, a) IN
           /\ (n.tag = "Num" \/ (n.tag = "Var" /\ n.nam = None)) =>
                (a \in Addrs(defs') /\ Node(defs', a) = n)
           /\ n.tag = "Ctr" =>
                /\ a \in Addrs(defs')
                /\ Node(defs', a).tag = "Ctr"
                /\ Node(defs', a).nam = n.nam
                /\ Len(Node(defs', a).args) = Len(n.args)]_vars

C3_Witness ==
  /\ pc = "done"
  /\ \E a \in Addrs(defs0) :
       /\ Node(defs0, a).tag = "Ctr"
       /\ Len(Node(defs0, a).args) = 2
       /\ AmbiguousVar(Node(defs0, a).args[1])
       /\ Node(defs0, a).args[2] \in {Var(None), Num(0)}
       /\ Node(defs, a).args[1].tag = "Ctr"
       /\ Node(defs, a).args[2] = Node(defs0, a).args[2]

\* C4: a step changes the patterns of no rule but the one being resolved, and changes
\* no body, no def_id, no number of rules or of top-level patterns, nor the constructor set.
C4_Locality ==
  [][/\ ctrs' = ctrs
     /\ DOMAIN defs' = DOMAIN defs
     /\ \A d \in DOMAIN defs :
          /\ defs'[d].def_id = defs[d].def_id
          /\ Len(defs'[d].rules) = Len(defs[d].rules)
          /\ \A r \in 1..Len(defs[d].rules) :
               /\ defs'[d].rules[r].body = defs[d].rules[r].body
               /\ defs'[d].rules[r].def_id = defs[d].rules[r].def_id
               /\ Len(defs'[d].rules[r].pats) = Len(defs[d].rules[r].pats)
               /\ (pc # "resolve" \/ <<d, r>> # <<cur, ri>>) =>
                    defs'[d].rules[r].pats = defs[d].rules[r].pats]_vars

C4_Witness ==
  /\ pc \in {"pats", "resolve"}
  /\ run = "first"
  /\ defs[cur].rules[ri] # defs0[cur].rules[ri]
  /\ \E b \in RuleIds(defs) :
       /\ b # <<cur, ri>>
       /\ defs[b[1]].rules[b[2]] = defs0[b[1]].rules[b[2]]
       /\ \E k \in 1..Len(defs[b[1]].rules[b[2]].pats) :
            AmbiguousVar(defs[b[1]].rules[b[2]].pats[k])

\* C5: when the pass has returned, the program is the reference rewrite of the program
\* it was given; with no constructor declared it is the program it was given.
C5_RewriteResult ==
  pc = "done" =>
    /\ defs = ReferenceBook(defs0)
    /\ (ctrs = {} => defs = defs0)

C5_Witness ==
  /\ pc = "done"
  /\ run = "first"
  /\ ctrs = {"Nil"}
  /\ \E b \in RuleIds(defs) :
       /\ defs0[b[1]].rules[b[2]].pats = <<Ctr("Pair", <<Var(Some("Nil")), Var(Some("x"))>>)>>
       /\ defs[b[1]].rules[b[2]].pats = <<Ctr("Pair", <<Ctr("Nil", <<>>), Var(Some("x"))>>)>>

\* C9: the pass is never stuck before it returns (some arm handles every node), the
\* steps of a run are bounded by the size of the program, and no node is visited twice
\* in a run.
RuleCount(ds) == Cardinality(RuleIds(ds))
NodeCount(ds) == Cardinality(Addrs(ds))
StepBound ==
  1 + 2 * Cardinality(DOMAIN defs0) + 2 * RuleCount(defs0) + 3 * NodeCount(defs0)

C9_TotalAndTerminates ==
  /\ pc \in {"defs", "rules", "pats", "resolve"} => ENABLED PassStep
  /\ steps <= StepBound
  /\ \A i, j \in 1..Len(log) : i < j => log[i] # log[j]

C9_Witness ==
  /\ pc = "done"
  /\ rewrites >= 1
  /\ \E i \in 1..Len(log) : Node(defs0, log[i]).tag = "Ctr" /\ log[i][4] # <<>>
  /\ steps >= 10

\* C10: a Tup pattern of the program the pass was given is the same Tup pattern, with
\* the same sub-patterns at every depth, in every state of the pass.
C10_TupFrame ==
  defs # defs0 =>
    \A a \in Addrs(defs0) :
      Node(defs0, a).tag = "Tup" => (a \in Addrs(defs) /\ Node(defs, a) = Node(defs0, a))

C10_Witness ==
  /\ pc = "done"
  /\ \E i \in 1..Len(log) :
       /\ Node(defs0, log[i]).tag = "Tup"
       /\ AmbiguousVar(Node(defs0, log[i]).fst)
       /\ Node(defs, log[i]) = Node(defs0, log[i])

Unsupported == Opr \ {Opr_from_ref_OP(e) : e \in OP}

\* C6: Add converts to ADD and that ADD converts back to Add; an internal operator with
\* no external counterpart fails and yields no external operator.
C6_Forward ==
  LET f == calls["OprToOP"] IN
    f # NoCall =>
      /\ f.arg = "Add" =>
           /\ f.res = "ADD"
           /\ \A c \in {"OPToOpr", "RefOPToOpr"} :
                (calls[c] # NoCall /\ calls[c].arg = f.res) => calls[c].res = f.arg
      /\ f.arg \in Unsupported => (f.res = Todo /\ f.res \notin OP)

C6_Witness ==
  /\ calls["OprToOP"] # NoCall
  /\ calls["OprToOP"].arg = "Add"
  /\ calls["OPToOpr"] # NoCall
  /\ calls["OPToOpr"].arg = calls["OprToOP"].res
  /\ calls["RefOPToOpr"] # NoCall
  /\ calls["RefOPToOpr"].arg = calls["OprToOP"].res

\* C7: both conversions from an external operator return an internal operator for every
\* external operator, and they agree.
C7_ReverseTotal ==
  /\ \A c \in {"OPToOpr", "RefOPToOpr"} : calls[c] # NoCall => calls[c].res \in Opr
  /\ (/\ calls["OPToOpr"] # NoCall
      /\ calls["RefOPToOpr"] # NoCall
      /\ calls["OPToOpr"].arg = calls["RefOPToOpr"].arg)
       => calls["OPToOpr"].res = calls["RefOPToOpr"].res

====
